---- MODULE Spec2Model ----
(***************************************************************************)
(* niri-action (src/src/main.rs): one invocation of a subcommand.  The     *)
(* process queries the niri daemon over one socket, hands the formatted    *)
(* listing to the fuzzel picker, resolves the picked line and sends the    *)
(* resulting Action request(s).                                            *)
(*                                                                         *)
(* Strings are sequences of one-character strings, Option<T> is a sequence *)
(* of length 0 (None) or 1 (Some), Vec<T> is a sequence.                   *)
(***************************************************************************)
EXTENDS Integers, Sequences, FiniteSets, TLC

\* ------------------------------------------------------------------ bounds
\* Longest listing (windows, workspaces, outputs) the daemon returns.
MaxList == 2

\* ------------------------------------------------------------- strings
None == << >>
Some(x) == << x >>

DigitChars == << "0", "1", "2", "3", "4", "5", "6", "7", "8", "9" >>

IsDigit(c) == \E i \in 1..10 : DigitChars[i] = c

DigitVal(c) == (CHOOSE i \in 1..10 : DigitChars[i] = c) - 1

\* Display for u64, as format!("{}", n) prints it.
RECURSIVE u64_to_string(_)
u64_to_string(n) ==
    IF n < 10 THEN << DigitChars[n + 1] >>
    ELSE u64_to_string(n \div 10) \o << DigitChars[(n % 10) + 1] >>

RECURSIVE digits_value(_)
digits_value(s) ==
    IF s = << >> THEN 0
    ELSE 10 * digits_value(SubSeq(s, 1, Len(s) - 1)) + DigitVal(s[Len(s)])

\* u64::MAX in decimal.
U64MaxDigits ==
    << "1", "8", "4", "4", "6", "7", "4", "4", "0", "7",
       "3", "7", "0", "9", "5", "5", "1", "6", "1", "5" >>

\* The digits without their leading zeros.
RECURSIVE trim_zeros(_)
trim_zeros(s) == IF s # << >> /\ s[1] = "0" THEN trim_zeros(Tail(s)) ELSE s

\* Whether the number the digits d write (no leading zero) is above
\* u64::MAX: more digits than it has, or as many and greater at the first
\* digit that differs.
above_u64_max(d) ==
    \/ Len(d) > Len(U64MaxDigits)
    \/ /\ Len(d) = Len(U64MaxDigits)
       /\ \E i \in 1..Len(d) :
             /\ \A j \in 1..(i - 1) : d[j] = U64MaxDigits[j]
             /\ DigitVal(d[i]) > DigitVal(U64MaxDigits[i])

\* str::parse::<u64>(): one optional leading '+', then at least one decimal
\* digit and nothing else (no sign alone, no '-', no blank, no newline), and
\* a value of at most u64::MAX (PosOverflow above it).
parse_u64(s) ==
    LET body == IF Len(s) > 1 /\ s[1] = "+" THEN Tail(s) ELSE s
    IN  IF /\ body # << >>
           /\ \A i \in 1..Len(body) : IsDigit(body[i])
           /\ ~above_u64_max(trim_zeros(body))
        THEN [ok |-> TRUE, val |-> digits_value(body)]
        ELSE [ok |-> FALSE, val |-> 0]

\* str::contains(":") and the like, for a one-character pattern c.
contains(s, c) == \E i \in 1..Len(s) : s[i] = c

\* Whether pat occurs in s at position i.
occurs_at(s, pat, i) ==
    i + Len(pat) - 1 <= Len(s) /\ SubSeq(s, i, i + Len(pat) - 1) = pat

\* str::split(pat): the pieces of s between the occurrences of pat, taken
\* left to right; a string without pat is its own single piece.
RECURSIVE split(_, _)
split(s, pat) ==
    IF \E i \in 1..Len(s) : occurs_at(s, pat, i)
    THEN LET i == CHOOSE k \in 1..Len(s) :
                      occurs_at(s, pat, k) /\ \A j \in 1..(k - 1) : ~occurs_at(s, pat, j)
         IN  << SubSeq(s, 1, i - 1) >> \o split(SubSeq(s, i + Len(pat), Len(s)), pat)
    ELSE << s >>

\* s.split(":").next(): the text before the first ':', the whole text when
\* there is none.  split() always yields a first piece, so the expect() that
\* follows it in the source cannot fail.
split_next(s) == split(s, << ":" >>)[1]

\* s.strip_suffix('\n'): Some(s without its last character) when s ends in a
\* newline, None otherwise.
strip_suffix_newline(s) ==
    IF s # << >> /\ s[Len(s)] = "\n" THEN Some(SubSeq(s, 1, Len(s) - 1)) ELSE None

unwrap_or(opt, default) == IF opt = None THEN default ELSE opt[1]

Range(s) == { s[i] : i \in 1..Len(s) }

SeqsUpTo(S, n) == UNION { [1..k -> S] : k \in 0..n }

\* ---------------------------------------------------- the daemon's data
\* niri_ipc::Window, niri_ipc::Workspace and niri_ipc::Output, cut down to
\* the fields the program reads.
WindowIds == { 5, 42 }
Titles == { None, Some(<< "a", ":", "b" >>) }
Windows == [ id : WindowIds, title : Titles ]

WorkspaceIds == { 7, 10 }
WorkspaceIdxs == { 0, 1, 2 }
WorkspaceNames == { None, Some(<< "m" >>) }
Workspaces == [ id : WorkspaceIds, idx : WorkspaceIdxs, name : WorkspaceNames,
                is_focused : BOOLEAN ]

OutputNames == { << "D", "P" >>, << "e" >> }
Serials == { None, Some(<< "s" >>) }
Outputs == [ name : OutputNames, make : { << "k" >> }, model : { << "l" >> },
             serial : Serials ]

\* Response::Outputs is a HashMap keyed by output name: the values come in
\* an order the program does not control, one per name.
OutputListings(n) ==
    { s \in SeqsUpTo(Outputs, n) :
        \A i, j \in 1..Len(s) : i # j => s[i].name # s[j].name }

\* The error texts the daemon reports.
ErrTexts == { << "e" >> }

\* What one call of Socket::send returns: Err(io error) when the transport
\* fails, Ok(Err(text)) when the daemon reports an error, Ok(Ok(response))
\* otherwise.
Reply(kind, windows, workspaces, outputs, err) ==
    [ kind |-> kind, windows |-> windows, workspaces |-> workspaces,
      outputs |-> outputs, err |-> err ]

Handled == Reply("Handled", << >>, << >>, << >>, << >>)
IoFailure == Reply("IoError", << >>, << >>, << >>, << >>)

WindowsReplies(n) == { Reply("Windows", w, << >>, << >>, << >>) : w \in SeqsUpTo(Windows, n) }
WorkspacesReplies(n) ==
    { Reply("Workspaces", << >>, w, << >>, << >>) : w \in SeqsUpTo(Workspaces, n) }
OutputsReplies(n) == { Reply("Outputs", << >>, << >>, o, << >>) : o \in OutputListings(n) }
ErrReplies == { Reply("Err", << >>, << >>, << >>, e) : e \in ErrTexts }

\* niri_ipc::Request and niri_ipc::Action, every request with the same
\* fields; a field an action does not have holds its default.
NoRef == [ tag |-> "", v |-> 0 ]
Id(n) == [ tag |-> "Id", v |-> n ]

Request(type, action, id, window_id, reference, focus, name, workspace, output, monitor_ref) ==
    [ type |-> type, action |-> action, id |-> id, window_id |-> window_id,
      reference |-> reference, focus |-> focus, name |-> name,
      workspace |-> workspace, output |-> output, monitor_ref |-> monitor_ref ]

RequestWindows == Request("Windows", "", 0, None, NoRef, FALSE, << >>, None, << >>, None)
RequestWorkspaces == Request("Workspaces", "", 0, None, NoRef, FALSE, << >>, None, << >>, None)
RequestOutputs == Request("Outputs", "", 0, None, NoRef, FALSE, << >>, None, << >>, None)

FocusWindow(id) ==
    Request("Action", "FocusWindow", id, None, NoRef, FALSE, << >>, None, << >>, None)
MoveWindowToWorkspace(window_id, reference, focus) ==
    Request("Action", "MoveWindowToWorkspace", 0, window_id, reference, focus,
            << >>, None, << >>, None)
FocusWorkspace(reference) ==
    Request("Action", "FocusWorkspace", 0, None, reference, FALSE, << >>, None, << >>, None)
SetWorkspaceName(name, workspace) ==
    Request("Action", "SetWorkspaceName", 0, None, NoRef, FALSE, name, workspace, << >>, None)
MoveWorkspaceToMonitor(output, reference) ==
    Request("Action", "MoveWorkspaceToMonitor", 0, None, NoRef, FALSE, << >>, None,
            output, reference)

\* A payload of a kind the request did not ask for: the program looks at
\* nothing but its kind, so these are the empty listing and the listings of
\* one entry.
Short(S) == { << >> } \cup { << x >> : x \in S }

UnexpectedReplies ==
    { Reply("Windows", w, << >>, << >>, << >>) : w \in Short(Windows) }
    \cup { Reply("Workspaces", << >>, w, << >>, << >>) : w \in Short(Workspaces) }
    \cup { Reply("Outputs", << >>, << >>, o, << >>) : o \in Short(Outputs) }

\* The replies the daemon may give to a request: the bare acknowledgement,
\* an error text, a transport failure, a payload of the kind asked for, or a
\* payload of another kind.
DaemonReplies(request) ==
    { Handled, IoFailure } \cup ErrReplies \cup UnexpectedReplies
    \cup (CASE request.type = "Windows"    -> WindowsReplies(MaxList)
            [] request.type = "Workspaces" -> WorkspacesReplies(MaxList)
            [] request.type = "Outputs"    -> OutputsReplies(MaxList)
            [] OTHER                       -> { })

\* ----------------------------------------------------------- results
\* Result<T, Error>: kind "Ok" with the value, or the kind of the failure
\* with its text.  A panic (unwrap/expect on nothing) is a failure kind too:
\* it ends the process like an error does.
Ok(v) == [ kind |-> "Ok", val |-> v, err |-> << >> ]
Err(kind, text) == [ kind |-> kind, val |-> << >>, err |-> text ]

\* ------------------------------------------------- impl QueryRun for Socket
\* query with the Handled arm missing: the acknowledgement is passed on as
\* if it were data.
query_without_handled_arm(reply) ==
    CASE reply.kind = "IoError" -> Err("IoError", << >>)
      [] reply.kind = "Err"     -> Err("UnhandledError", reply.err)
      [] OTHER                  -> Ok(Some(reply))

query(reply) ==
    CASE reply.kind = "IoError" -> Err("IoError", << >>)
      [] reply.kind = "Handled" -> Ok(None)
      [] reply.kind = "Err"     -> Err("UnhandledError", reply.err)
      [] OTHER                  -> Ok(Some(reply))

\* run_action taking any successful payload for success.
run_action_any_payload(reply) ==
    CASE reply.kind = "IoError" -> Err("IoError", << >>)
      [] reply.kind = "Err"     -> Err("UnhandledError", reply.err)
      [] OTHER                  -> Ok(None)

\* The text of the unexpected payload is its Debug print; the model keeps
\* the variant's name of it.
run_action(reply) ==
    CASE reply.kind = "IoError" -> Err("IoError", << >>)
      [] reply.kind = "Handled" -> Ok(None)
      [] reply.kind = "Err"     -> Err("UnhandledError", reply.err)
      [] OTHER                  -> Err("UnhandledError", << "Got result for ", reply.kind >>)

\* ------------------------------------------------------------ formatters
Unknown == << "U", "n", "k", "n", "o", "w", "n" >>
Unnamed == << "<", "u", "n", "n", "a", "m", "e", "d", ">" >>
UnknownSerial == << "<", "u", "n", "k", "n", "o", "w", "n", ">" >>

\* format!("{}: {}", x.id, title or "Unknown")
window_line(x) == u64_to_string(x.id) \o << ":", " " >> \o unwrap_or(x.title, Unknown)

\* format!("{}: {} ({})", x.id, name or "<unnamed>", x.idx)
workspace_line(x) ==
    u64_to_string(x.id) \o << ":", " " >> \o unwrap_or(x.name, Unnamed)
        \o << " ", "(" >> \o u64_to_string(x.idx) \o << ")" >>

\* format!("{}: {} {} {}", x.name, x.make, x.model, serial or "<unknown>")
output_line(x) ==
    x.name \o << ":", " " >> \o x.make \o << " " >> \o x.model \o << " " >>
        \o unwrap_or(x.serial, UnknownSerial)

\* The listing left in the daemon's order, the sort forgotten.
sort_by_idx_forgotten(s) == s

\* The comparison turned round, b.idx.cmp(&a.idx): descending by idx.
RECURSIVE sort_by_idx_descending(_)
sort_by_idx_descending(s) ==
    IF s = << >> THEN << >>
    ELSE LET t == sort_by_idx_descending(SubSeq(s, 1, Len(s) - 1))
             x == s[Len(s)]
             k == Cardinality({ i \in 1..Len(t) : t[i].idx >= x.idx })
         IN  SubSeq(t, 1, k) \o << x >> \o SubSeq(t, k + 1, Len(t))

\* si.sort_by(|a, b| a.idx.cmp(&b.idx)): a stable sort, ascending by idx.
RECURSIVE sort_by_idx(_)
sort_by_idx(s) ==
    IF s = << >> THEN << >>
    ELSE LET t == sort_by_idx(SubSeq(s, 1, Len(s) - 1))
             x == s[Len(s)]
             k == Cardinality({ i \in 1..Len(t) : t[i].idx <= x.idx })
         IN  SubSeq(t, 1, k) \o << x >> \o SubSeq(t, k + 1, Len(t))

\* get_windows with the ? after query missing: a failed query is an empty
\* listing.
get_windows_swallowing(reply) ==
    LET q == query(reply)
    IN  IF q.kind = "Ok" /\ q.val # None /\ q.val[1].kind = "Windows"
        THEN Ok([ i \in 1..Len(q.val[1].windows) |-> window_line(q.val[1].windows[i]) ])
        ELSE Ok(<< >>)

get_windows(reply) ==
    LET q == query(reply)
    IN  IF q.kind # "Ok" THEN q
        ELSE IF q.val # None /\ q.val[1].kind = "Windows"
        THEN Ok([ i \in 1..Len(q.val[1].windows) |-> window_line(q.val[1].windows[i]) ])
        ELSE Ok(<< >>)

get_workspaces(reply) ==
    LET q == query(reply)
    IN  IF q.kind # "Ok" THEN q
        ELSE IF q.val # None /\ q.val[1].kind = "Workspaces"
        THEN LET si == sort_by_idx(q.val[1].workspaces)
             IN  Ok([ i \in 1..Len(si) |-> workspace_line(si[i]) ])
        ELSE Ok(<< >>)

get_outputs(reply) ==
    LET q == query(reply)
    IN  IF q.kind # "Ok" THEN q
        ELSE IF q.val # None /\ q.val[1].kind = "Outputs"
        THEN Ok([ i \in 1..Len(q.val[1].outputs) |-> output_line(q.val[1].outputs[i]) ])
        ELSE Ok(<< >>)

\* find() taking the first workspace whether it is focused or not.
find_focused_any(s) == IF s = << >> THEN None ELSE Some(s[1])

\* The last focused workspace taken instead of the first (rfind).
find_focused_last(s) ==
    IF \E i \in 1..Len(s) : s[i].is_focused
    THEN Some(s[CHOOSE i \in 1..Len(s) :
                  s[i].is_focused /\ \A j \in (i + 1)..Len(s) : ~s[j].is_focused])
    ELSE None

\* s.into_iter().find(|x| x.is_focused): the first focused workspace in the
\* daemon's order, None when there is none.
find_focused(s) ==
    IF \E i \in 1..Len(s) : s[i].is_focused
    THEN Some(s[CHOOSE i \in 1..Len(s) :
                  s[i].is_focused /\ \A j \in 1..(i - 1) : ~s[j].is_focused])
    ELSE None

\* The panic of Option::unwrap() on None.
UnwrapNone == << "called Option::unwrap on a None value" >>

\* get_current_workspace falling back to id 0 when no workspace is focused.
get_current_workspace_or_default(reply) ==
    LET q == query(reply)
    IN  IF q.kind # "Ok" THEN q
        ELSE IF q.val # None /\ q.val[1].kind = "Workspaces"
        THEN Ok(IF find_focused(q.val[1].workspaces) = None THEN 0
                ELSE find_focused(q.val[1].workspaces)[1].id)
        ELSE Ok(0)

\* get_current_workspace with an error in place of the two Ok(0) arms.
get_current_workspace_strict(reply) ==
    LET q == query(reply)
    IN  IF q.kind # "Ok" THEN q
        ELSE IF q.val # None /\ q.val[1].kind = "Workspaces"
        THEN LET f == find_focused(q.val[1].workspaces)
             IN  IF f = None THEN Err("Panic", UnwrapNone) ELSE Ok(f[1].id)
        ELSE Err("UnhandledError", << "No workspaces" >>)

get_current_workspace(reply) ==
    LET q == query(reply)
    IN  IF q.kind # "Ok" THEN q
        ELSE IF q.val # None /\ q.val[1].kind = "Workspaces"
        THEN LET f == find_focused(q.val[1].workspaces)
             IN  IF f = None THEN Err("Panic", UnwrapNone) ELSE Ok(f[1].id)
        ELSE Ok(0)

get_current_workspace_name(reply) ==
    LET q == query(reply)
    IN  IF q.kind # "Ok" THEN q
        ELSE IF q.val # None /\ q.val[1].kind = "Workspaces"
        THEN LET f == find_focused(q.val[1].workspaces)
             IN  IF f = None THEN Err("Panic", UnwrapNone)
                 ELSE Ok(unwrap_or(f[1].name, << >>))
        ELSE Ok(<< >>)

\* ------------------------------------------------------------- the picker
\* What the user types into fuzzel instead of picking a listed line: a new
\* name, a number, an id that is not listed, a prefix that is no number, a
\* bare Return.  fuzzel prints the line with a newline after it.
TypedLines ==
    { << "s" >>, << "7" >>, << "9", ":", " ", "x" >>, << "x", ":", "y" >>,
      << "+", "7", ":" >>, << ":" >>, << "e", ":", " ", "k" >>, << >>,
      << "1", "8", "4", "4", "6", "7", "4", "4", "0", "7",
         "3", "7", "0", "9", "5", "5", "1", "6", "1", "6", ":", " ", "x" >> }

\* The text child.wait_with_output() reads from fuzzel for the candidate
\* lines in input: nothing when the user cancels, a listed line or a typed
\* line with its newline, or (a picker that does not end its output with a
\* newline) the bare text.
FuzzelOutputs(input) ==
    { << >> }
    \cup { l \o << "\n" >> : l \in Range(input) \cup TypedLines }
    \cup { << "s" >>, << "7", ":", "x" >> }

\* fuzzel_get_selection_id, past fuzzel_run.
\* The text after the last ':' taken instead (rsplit).
fuzzel_get_selection_id_rsplit(fuzzel_out) ==
    split(fuzzel_out, << ":" >>)[Len(split(fuzzel_out, << ":" >>))]

fuzzel_get_selection_id(fuzzel_out) == split_next(fuzzel_out)

\* fuzzel_get_selection_id_or_entry, past fuzzel_run: an IDorEntry, or the
\* panic of one of its expect() calls.
fuzzel_get_selection_id_or_entry(fuzzel_out) ==
    LET stripped == strip_suffix_newline(fuzzel_out)
        parsed == parse_u64(split_next(fuzzel_out))
    IN  IF stripped = None THEN Err("Panic", << "Failed to strip newline" >>)
        ELSE IF contains(fuzzel_out, ":")
        THEN IF parsed.ok THEN Ok([ id |-> Some(parsed.val), entry |-> stripped[1] ])
             ELSE Err("Panic", << "Failed to convert ID to u64" >>)
        ELSE Ok([ id |-> None, entry |-> stripped[1] ])

\* --------------------------------------------------- workspace-exec's files
Home == << "/", "h" >>
Tilde == << "~" >>

\* shellexpand::tilde: a leading "~" alone or before "/" becomes the home
\* directory, any other text is kept.
tilde(s) ==
    IF s # << >> /\ s[1] = "~" /\ (Len(s) = 1 \/ s[2] = "/")
    THEN Home \o Tail(s)
    ELSE s

\* The mapping file's contents, line by line.
MappingFiles ==
    { << >>,
      << << "m", ":", " ", "/", "w" >> >>,
      << << "m" >> >>,
      << << "m", ":", " ", "/", "w" >>, << "m", ":", " ", "~", "/", "v" >> >>,
      << << "x", ":", " ", "/", "y" >> >> }

\* map.get(key) of the HashMap folded from the file's lines: the key is the
\* text before the first ": ", the value the text after it (up to the next
\* ": "), "~" when the line has no ": "; a later line replaces an earlier
\* one with the same key.
map_get(file, key) ==
    LET hits == { i \in 1..Len(file) : split(file[i], << ":", " " >>)[1] = key }
    IN  IF hits = {} THEN None
        ELSE LET i == CHOOSE k \in hits : \A j \in hits : j <= k
                 x == split(file[i], << ":", " " >>)
             IN  Some(IF Len(x) >= 2 THEN x[2] ELSE Tilde)

\* values_of("args"): None when no argument was given.
ArgLists == { None, Some(<< "b" >>), Some(<< "b", "c" >>) }

\* ------------------------------------------------------------------ state
VARIABLES
    subcommand,   \* matches.subcommand_name()
    socket,       \* state.socket: Some(the connection), once connect() returned it
    pc,           \* where the invocation stands
    sent,         \* the requests written to the socket, in order
    acks,         \* the kind of the reply to each of them
    picker_runs,  \* how often fuzzel_run was entered
    picked,       \* Some(what fuzzel printed), once it has
    daemon,       \* what the last reply to a query held
    lines,        \* windows / work_names / outputs
    ws,           \* steal_container_by_id's ws
    sel,          \* focus_workspace_by_name's ws (an IDorEntry)
    id,           \* id / space
    output,       \* move_workspace_to_output's output
    workspace,    \* workspace_exec's workspace
    spawned,      \* Some(the command workspace_exec spawned)
    result,       \* what main returns
    d_pc, d_request, d_reply, d_result,  \* one call of query or run_action alone
    f_pc, f_reply, f_lines, f_ids        \* one listing formatted and resolved alone

dvars == << d_pc, d_request, d_reply, d_result >>
fvars == << f_pc, f_reply, f_lines, f_ids >>
locals == << lines, ws, sel, id, output, workspace >>
vars == << subcommand, socket, pc, sent, acks, picker_runs, picked, daemon, lines, ws, sel, id,
           output, workspace, spawned, result, d_pc, d_request, d_reply, d_result,
           f_pc, f_reply, f_lines, f_ids >>

Subcommands ==
    { "focus-container", "steal-container", "focus-workspace", "move-to-workspace",
      "move-workspace-to-output", "workspace-exec", "" }

NoEntry == [ id |-> None, entry |-> << >> ]
Running == [ kind |-> "Running", err |-> << >> ]
NoReply == [ kind |-> "", count |-> 0, focused |-> << >>, top |-> << >> ]

\* The ids of the workspaces of a listing, in listing order.
IdsOf(s) == [ i \in 1..Len(s) |-> s[i].id ]

\* What a reply holds, as far as the record of it goes: its kind, the length
\* of its listing, the ids of the workspaces it reports focused and the ids
\* of the workspaces with the highest idx, both in the daemon's order.
Heard(reply) ==
    LET w == reply.workspaces
        IsFocused(x) == x.is_focused
        IsTop(x) == \A i \in 1..Len(w) : w[i].idx <= x.idx
    IN  [ kind |-> reply.kind,
          count |-> Len(reply.windows) + Len(w) + Len(reply.outputs),
          focused |-> IdsOf(SelectSeq(w, IsFocused)),
          top |-> IdsOf(SelectSeq(w, IsTop)) ]

\* Socket::connect() has returned the connection.
Connected == Some("connected")

\* main at its start with the command line parsed, the socket being sock.
MainAt(sock) ==
    /\ subcommand \in Subcommands
    /\ socket = sock
    /\ pc = "main"
    /\ sent = << >>
    /\ acks = << >>
    /\ picker_runs = 0
    /\ picked = None
    /\ daemon = NoReply
    /\ lines = << >>
    /\ ws = 0
    /\ sel = NoEntry
    /\ id = 0
    /\ output = << >>
    /\ workspace = << >>
    /\ spawned = None
    /\ result = Running

\* The state when main has parsed the command line, before it connects.
MainInit == MainAt(None)

DispatchOff ==
    /\ d_pc = "off"
    /\ d_request = RequestWindows
    /\ d_reply = Handled
    /\ d_result = Ok(None)

FormatOff ==
    /\ f_pc = "off"
    /\ f_reply = Handled
    /\ f_lines = << >>
    /\ f_ids = << >>

Init == MainInit /\ DispatchOff /\ FormatOff

\* The function returns r to main, which returns it: the locals are gone.
Return(r) ==
    /\ pc' = "done"
    /\ result' = [ kind |-> r.kind, err |-> r.err ]
    /\ lines' = << >>
    /\ ws' = 0
    /\ sel' = NoEntry
    /\ id' = 0
    /\ output' = << >>
    /\ workspace' = << >>

\* socket: &mut Socket::connect()?, then match matches.subcommand_name()
main ==
    /\ pc = "main"
    /\ \/ /\ UNCHANGED socket
          /\ Return(Err("IoError", << >>))
       \/ /\ socket' = Connected
          /\ IF subcommand = "" THEN Return(Ok(None))
             ELSE /\ pc' = CASE subcommand \in { "focus-container", "steal-container" }
                                 -> "get_windows"
                             [] subcommand \in { "focus-workspace", "move-to-workspace" }
                                 -> "get_workspaces"
                             [] subcommand = "move-workspace-to-output" -> "get_outputs"
                             [] OTHER -> "get_current_workspace_name"
                  /\ UNCHANGED << result, locals >>
    /\ UNCHANGED << subcommand, sent, acks, picker_runs, picked, daemon, spawned, dvars, fvars >>

\* get_windows, get_workspaces or get_outputs, by the request it sends.
get_listing(request, reply) ==
    CASE request.type = "Windows"    -> get_windows(reply)
      [] request.type = "Workspaces" -> get_workspaces(reply)
      [] request.type = "Outputs"    -> get_outputs(reply)

\* let x = get_...(self.socket)?; one query, its reply, and the listing
\* made of it.
Listing(request, next) ==
    /\ \E reply \in DaemonReplies(request) :
          /\ sent' = Append(sent, request)
          /\ acks' = Append(acks, reply.kind)
          /\ daemon' = Heard(reply)
          /\ IF get_listing(request, reply).kind = "Ok"
             THEN /\ lines' = get_listing(request, reply).val
                  /\ pc' = next
                  /\ UNCHANGED << result, ws, sel, id, output, workspace >>
             ELSE Return(get_listing(request, reply))
    /\ UNCHANGED << subcommand, socket, picker_runs, picked, spawned, dvars, fvars >>

\* println!() panics when stdout cannot be written, with the text of the
\* operating system's error: a full device, a pipe whose reader has gone.
PrintlnPanics ==
    { "failed printing to stdout: No space left on device (os error 28)",
      "failed printing to stdout: Broken pipe (os error 32)" }

\* What one println!() does: it prints ("") or it panics with a text.
Println == { "" } \cup PrintlnPanics

\* The expects of fuzzel_run: the process cannot be started, has no stdin,
\* cannot be written to, cannot be waited for, or prints bytes that are no
\* UTF-8.
FuzzelPanics ==
    { "Can't open fuzzel", "failed to get stdin", "failed to write to fuzzel",
      "failed to wait on child", "Can't read output" }

\* fuzzel_run cannot start or read the picker: one of its expect() panics.
fuzzel_panics ==
    /\ picker_runs' = picker_runs + 1
    /\ \E text \in FuzzelPanics : Return(Err("Panic", << text >>))
    /\ UNCHANGED << subcommand, socket, sent, acks, picked, daemon, spawned, dvars, fvars >>

\* self.socket.run_action(request), the function's last expression.
LastAction(request) ==
    /\ \E reply \in DaemonReplies(request) :
          /\ sent' = Append(sent, request)
          /\ acks' = Append(acks, reply.kind)
          /\ Return(run_action(reply))
    /\ UNCHANGED << subcommand, socket, picker_runs, picked, daemon, spawned, dvars, fvars >>

\* The selection with unwrap_or(0) in place of the ?: a prefix that is no
\* number selects id 0.
SelectIdOrZero(next) ==
    /\ \E out \in FuzzelOutputs(lines) :
          /\ picked' = Some(out)
          /\ id' = parse_u64(fuzzel_get_selection_id(out)).val
    /\ pc' = next
    /\ picker_runs' = picker_runs + 1
    /\ UNCHANGED << subcommand, socket, sent, acks, daemon, spawned, result, lines, ws, sel,
                    output, workspace, dvars, fvars >>

\* let id = fuzzel_get_selection_id(&lines).parse::<u64>()?;
SelectId(next) ==
    /\ \E out \in FuzzelOutputs(lines) :
          /\ picked' = Some(out)
          /\ IF parse_u64(fuzzel_get_selection_id(out)).ok
             THEN /\ id' = parse_u64(fuzzel_get_selection_id(out)).val
                  /\ pc' = next
                  /\ UNCHANGED << result, lines, ws, sel, output, workspace >>
             ELSE Return(Err("ParseIntError", << >>))
    /\ picker_runs' = picker_runs + 1
    /\ UNCHANGED << subcommand, socket, sent, acks, daemon, spawned, dvars, fvars >>

\* ------------------------------------------------------- focus-container
focus_container_get_windows ==
    /\ subcommand = "focus-container" /\ pc = "get_windows"
    /\ Listing(RequestWindows, "fuzzel")

focus_container_select ==
    /\ subcommand = "focus-container" /\ pc = "fuzzel"
    /\ (fuzzel_panics \/ SelectId("run_action"))

focus_container_run_action ==
    /\ subcommand = "focus-container" /\ pc = "run_action"
    /\ LastAction(FocusWindow(id))

focus_container_by_id ==
    \/ focus_container_get_windows
    \/ focus_container_select
    \/ focus_container_run_action

\* ------------------------------------------------------- steal-container
steal_container_get_windows ==
    /\ subcommand = "steal-container" /\ pc = "get_windows"
    /\ Listing(RequestWindows, "get_current_workspace")

steal_container_get_current_workspace ==
    /\ subcommand = "steal-container" /\ pc = "get_current_workspace"
    /\ \E reply \in DaemonReplies(RequestWorkspaces) :
          /\ sent' = Append(sent, RequestWorkspaces)
          /\ acks' = Append(acks, reply.kind)
          /\ daemon' = Heard(reply)
          /\ IF get_current_workspace(reply).kind = "Ok"
             THEN /\ ws' = get_current_workspace(reply).val
                  /\ pc' = "fuzzel"
                  /\ UNCHANGED << result, lines, sel, id, output, workspace >>
             ELSE Return(get_current_workspace(reply))
    /\ UNCHANGED << subcommand, socket, picker_runs, picked, spawned, dvars, fvars >>

steal_container_select ==
    /\ subcommand = "steal-container" /\ pc = "fuzzel"
    /\ (fuzzel_panics \/ SelectId("run_action"))

steal_container_run_action ==
    /\ subcommand = "steal-container" /\ pc = "run_action"
    /\ LastAction(MoveWindowToWorkspace(Some(id), Id(ws), FALSE))

steal_container_by_id ==
    \/ steal_container_get_windows
    \/ steal_container_get_current_workspace
    \/ steal_container_select
    \/ steal_container_run_action

\* ------------------------------------------------------- focus-workspace
focus_workspace_get_workspaces ==
    /\ subcommand = "focus-workspace" /\ pc = "get_workspaces"
    /\ Listing(RequestWorkspaces, "fuzzel")

\* let ws = fuzzel_get_selection_id_or_entry(&work_names); match ws.id, and
\* in the None arm the id of work_names.last().
focus_workspace_pick ==
    /\ \E out \in FuzzelOutputs(lines), printed \in Println :
          LET e == fuzzel_get_selection_id_or_entry(out)
              last == parse_u64(split_next(lines[Len(lines)]))
          IN  /\ picked' = Some(out)
              /\ IF e.kind # "Ok" THEN Return(e)
                 ELSE IF printed # "" THEN Return(Err("Panic", << printed >>))
                 ELSE IF e.val.id # None
                 THEN /\ sel' = e.val
                      /\ pc' = "focus"
                      /\ UNCHANGED << result, lines, ws, id, output, workspace >>
                 ELSE IF lines = << >> THEN Return(Err("Panic", << "No workspaces" >>))
                 ELSE IF ~last.ok THEN Return(Err("ParseIntError", << >>))
                 ELSE /\ sel' = e.val
                      /\ id' = last.val
                      /\ pc' = "focus_last"
                      /\ UNCHANGED << result, lines, ws, output, workspace >>
    /\ picker_runs' = picker_runs + 1
    /\ UNCHANGED << subcommand, socket, sent, acks, daemon, spawned, dvars, fvars >>

focus_workspace_select ==
    /\ subcommand = "focus-workspace" /\ pc = "fuzzel"
    /\ (fuzzel_panics \/ focus_workspace_pick)

\* The Some arm falling through into the rename of the None arm.
focus_workspace_focus_fallthrough ==
    /\ subcommand = "focus-workspace" /\ pc = "focus"
    /\ \E reply \in DaemonReplies(FocusWorkspace(Id(sel.id[1]))) :
          /\ sent' = Append(sent, FocusWorkspace(Id(sel.id[1])))
          /\ acks' = Append(acks, reply.kind)
          /\ IF run_action(reply).kind = "Ok"
             THEN /\ pc' = "rename"
                  /\ UNCHANGED << result, locals >>
             ELSE Return(run_action(reply))
    /\ UNCHANGED << subcommand, socket, picker_runs, picked, daemon, spawned, dvars, fvars >>

\* Some(s) => run_action(FocusWorkspace { reference: Id(s) })
focus_workspace_focus ==
    /\ subcommand = "focus-workspace" /\ pc = "focus"
    /\ LastAction(FocusWorkspace(Id(sel.id[1])))

\* The first action of the None arm with its ? missing: the rename follows
\* whatever the daemon answered.
focus_workspace_focus_last_unchecked ==
    /\ subcommand = "focus-workspace" /\ pc = "focus_last"
    /\ \E reply \in DaemonReplies(FocusWorkspace(Id(id))) :
          /\ sent' = Append(sent, FocusWorkspace(Id(id)))
          /\ acks' = Append(acks, reply.kind)
    /\ pc' = "rename"
    /\ UNCHANGED << subcommand, socket, picker_runs, picked, daemon, spawned, result, locals, dvars, fvars >>

\* None => run_action(FocusWorkspace { reference: Id(id) })?;
focus_workspace_focus_last ==
    /\ subcommand = "focus-workspace" /\ pc = "focus_last"
    /\ \E reply \in DaemonReplies(FocusWorkspace(Id(id))) :
          /\ sent' = Append(sent, FocusWorkspace(Id(id)))
          /\ acks' = Append(acks, reply.kind)
          /\ IF run_action(reply).kind = "Ok"
             THEN /\ pc' = "rename"
                  /\ UNCHANGED << result, locals >>
             ELSE Return(run_action(reply))
    /\ UNCHANGED << subcommand, socket, picker_runs, picked, daemon, spawned, dvars, fvars >>

\* run_action(SetWorkspaceName { name: ws.entry, workspace: Some(Id(id)) })
focus_workspace_rename ==
    /\ subcommand = "focus-workspace" /\ pc = "rename"
    /\ LastAction(SetWorkspaceName(sel.entry, Some(Id(id))))

focus_workspace_by_name ==
    \/ focus_workspace_get_workspaces
    \/ focus_workspace_select
    \/ focus_workspace_focus
    \/ focus_workspace_focus_last
    \/ focus_workspace_rename

\* ----------------------------------------------------- move-to-workspace
move_to_workspace_get_workspaces ==
    /\ subcommand = "move-to-workspace" /\ pc = "get_workspaces"
    /\ Listing(RequestWorkspaces, "fuzzel")

move_to_workspace_select ==
    /\ subcommand = "move-to-workspace" /\ pc = "fuzzel"
    /\ (fuzzel_panics \/ SelectId("run_action"))

move_to_workspace_run_action ==
    /\ subcommand = "move-to-workspace" /\ pc = "run_action"
    /\ LastAction(MoveWindowToWorkspace(None, Id(id), FALSE))

move_to_workspace_by_name ==
    \/ move_to_workspace_get_workspaces
    \/ move_to_workspace_select
    \/ move_to_workspace_run_action

\* ---------------------------------------------- move-workspace-to-output
move_workspace_to_output_get_outputs ==
    /\ subcommand = "move-workspace-to-output" /\ pc = "get_outputs"
    /\ Listing(RequestOutputs, "fuzzel")

\* The selection checked against the listing: a prefix that names no listed
\* output is an error.
move_workspace_to_output_pick_listed ==
    /\ \E out \in FuzzelOutputs(lines) :
          /\ picked' = Some(out)
          /\ IF \E i \in 1..Len(lines) :
                    fuzzel_get_selection_id(lines[i]) = fuzzel_get_selection_id(out)
             THEN /\ output' = fuzzel_get_selection_id(out)
                  /\ pc' = "run_action"
                  /\ UNCHANGED << result, lines, ws, sel, id, workspace >>
             ELSE Return(Err("UnhandledError", << "No such output" >>))
    /\ picker_runs' = picker_runs + 1
    /\ UNCHANGED << subcommand, socket, sent, acks, daemon, spawned, dvars, fvars >>

\* let output = fuzzel_get_selection_id(&outputs);
move_workspace_to_output_pick ==
    /\ \E out \in FuzzelOutputs(lines) :
          /\ picked' = Some(out)
          /\ output' = fuzzel_get_selection_id(out)
    /\ pc' = "run_action"
    /\ picker_runs' = picker_runs + 1
    /\ UNCHANGED << subcommand, socket, sent, acks, daemon, spawned, result, lines, ws, sel, id,
                    workspace, dvars, fvars >>

move_workspace_to_output_select ==
    /\ subcommand = "move-workspace-to-output" /\ pc = "fuzzel"
    /\ (fuzzel_panics \/ move_workspace_to_output_pick)

move_workspace_to_output_run_action ==
    /\ subcommand = "move-workspace-to-output" /\ pc = "run_action"
    /\ LastAction(MoveWorkspaceToMonitor(output, None))

move_workspace_to_output ==
    \/ move_workspace_to_output_get_outputs
    \/ move_workspace_to_output_select
    \/ move_workspace_to_output_run_action

\* --------------------------------------------------------- workspace-exec
\* let workspace = get_current_workspace_name(self.socket)?;
\* if workspace.is_empty() { return Ok(()) }
\* The name looked up with a query of its own after get_current_workspace's:
\* two Workspaces queries.
workspace_exec_get_name_twice ==
    /\ subcommand = "workspace-exec" /\ pc = "get_current_workspace_name"
    /\ \E reply \in DaemonReplies(RequestWorkspaces) :
          /\ sent' = sent \o << RequestWorkspaces, RequestWorkspaces >>
          /\ acks' = acks \o << reply.kind, reply.kind >>
          /\ daemon' = Heard(reply)
          /\ IF get_current_workspace_name(reply).kind # "Ok"
             THEN Return(get_current_workspace_name(reply))
             ELSE IF get_current_workspace_name(reply).val = << >>
             THEN Return(Ok(None))
             ELSE /\ workspace' = get_current_workspace_name(reply).val
                  /\ pc' = "exec"
                  /\ UNCHANGED << result, lines, ws, sel, id, output >>
    /\ UNCHANGED << subcommand, socket, picker_runs, picked, spawned, dvars, fvars >>

workspace_exec_get_name ==
    /\ subcommand = "workspace-exec" /\ pc = "get_current_workspace_name"
    /\ \E reply \in DaemonReplies(RequestWorkspaces) :
          /\ sent' = Append(sent, RequestWorkspaces)
          /\ acks' = Append(acks, reply.kind)
          /\ daemon' = Heard(reply)
          /\ IF get_current_workspace_name(reply).kind # "Ok"
             THEN Return(get_current_workspace_name(reply))
             ELSE IF get_current_workspace_name(reply).val = << >>
             THEN Return(Ok(None))
             ELSE /\ workspace' = get_current_workspace_name(reply).val
                  /\ pc' = "exec"
                  /\ UNCHANGED << result, lines, ws, sel, id, output >>
    /\ UNCHANGED << subcommand, socket, picker_runs, picked, spawned, dvars, fvars >>

\* The rest of workspace_exec: read the mapping, pick the directory, change
\* to it and spawn the command.  The file system and the command line are
\* the environment's: the file may be unreadable, the directory may be
\* missing, chdir and spawn may fail, the arguments may be absent.
workspace_exec_spawn ==
    /\ subcommand = "workspace-exec" /\ pc = "exec"
    /\ \E readable, exists, chdir_ok, spawn_ok \in BOOLEAN, printed \in Println,
          file \in MappingFiles, args \in ArgLists :
          LET dir == tilde(unwrap_or(map_get(file, workspace), Tilde))
          IN  IF ~readable THEN Return(Err("IoError", << >>)) /\ UNCHANGED spawned
              ELSE IF ~exists THEN Return(Ok(None)) /\ UNCHANGED spawned
              ELSE IF printed # ""
              THEN Return(Err("Panic", << printed >>)) /\ UNCHANGED spawned
              ELSE IF ~chdir_ok THEN Return(Err("IoError", << >>)) /\ UNCHANGED spawned
              ELSE IF args = None
              THEN Return(Err("UnhandledError", << "No args found" >>)) /\ UNCHANGED spawned
              ELSE IF ~spawn_ok THEN Return(Err("IoError", << >>)) /\ UNCHANGED spawned
              ELSE /\ spawned' = Some([ dir |-> dir, binary |-> args[1][1],
                                        args |-> Tail(args[1]) ])
                   /\ Return(Ok(None))
    /\ UNCHANGED << subcommand, socket, sent, acks, picker_runs, picked, daemon, dvars, fvars >>

workspace_exec ==
    \/ workspace_exec_get_name
    \/ workspace_exec_spawn

\* -------------------------------------------------------- specification
Next ==
    \/ main
    \/ focus_container_by_id
    \/ steal_container_by_id
    \/ focus_workspace_by_name
    \/ move_to_workspace_by_name
    \/ move_workspace_to_output
    \/ workspace_exec

Spec == Init /\ [][Next]_vars

\* ---------------------------------------- query and run_action on their own
\* One request, one reply, and what query (for a query request) or
\* run_action (for an Action request) returns for it.
DispatchRequests ==
    { RequestWindows, RequestWorkspaces, RequestOutputs,
      FocusWindow(42), MoveWindowToWorkspace(Some(42), Id(7), FALSE),
      MoveWindowToWorkspace(None, Id(7), FALSE), FocusWorkspace(Id(7)),
      SetWorkspaceName(<< "s" >>, Some(Id(7))), MoveWorkspaceToMonitor(<< "e" >>, None) }

DispatchInit ==
    /\ MainAt(Connected)
    /\ d_pc = "send"
    /\ d_request \in DispatchRequests
    /\ d_reply \in DaemonReplies(d_request)
    /\ d_result = Ok(None)
    /\ FormatOff

dispatch_query ==
    /\ d_pc = "send" /\ d_request.type # "Action"
    /\ d_result' = query(d_reply)
    /\ d_pc' = "query"
    /\ UNCHANGED << subcommand, socket, pc, sent, acks, picker_runs, picked, daemon, locals, spawned,
                    result, d_request, d_reply, fvars >>

dispatch_run_action ==
    /\ d_pc = "send" /\ d_request.type = "Action"
    /\ d_result' = run_action(d_reply)
    /\ d_pc' = "run_action"
    /\ UNCHANGED << subcommand, socket, pc, sent, acks, picker_runs, picked, daemon, locals, spawned,
                    result, d_request, d_reply, fvars >>

DispatchNext == dispatch_query \/ dispatch_run_action

SpecDispatch == DispatchInit /\ [][DispatchNext]_vars

\* ---------------------------------------- one listing formatted and resolved
\* A listing getter applied to one reply, and every entry of the reply put
\* through its format!() and through the resolver of the picked line, with
\* listings longer and texts richer than the pipeline above draws.
MaxFormat == 3

FormatTitles == { None, Some(<< "a", ":", "b" >>), Some(<< ":" >>) }
FormatWindows == [ id : WindowIds, title : FormatTitles ]
FormatNames == { None, Some(<< "m" >>), Some(<< "1", ":" >>) }
FormatWorkspaces ==
    [ id : WorkspaceIds, idx : WorkspaceIdxs, name : FormatNames, is_focused : { FALSE } ]
FormatOutputs ==
    [ name : OutputNames, make : { << "k" >>, << ":" >> }, model : { << "l" >> },
      serial : Serials \cup { Some(<< "9", ":" >>) } ]

FormatReplies ==
    { Reply("Windows", w, << >>, << >>, << >>) : w \in SeqsUpTo(FormatWindows, MaxFormat) }
    \cup { Reply("Workspaces", << >>, w, << >>, << >>) :
              w \in SeqsUpTo(FormatWorkspaces, MaxFormat) }
    \cup { Reply("Outputs", << >>, << >>, o, << >>) :
              o \in { s \in SeqsUpTo(FormatOutputs, MaxList) :
                        \A i, j \in 1..Len(s) : i # j => s[i].name # s[j].name } }

\* The request a reply of that kind answers.
RequestOf(reply) ==
    CASE reply.kind = "Windows"    -> RequestWindows
      [] reply.kind = "Workspaces" -> RequestWorkspaces
      [] reply.kind = "Outputs"    -> RequestOutputs

\* The entries of a reply, in the daemon's order.
EntriesOf(reply) ==
    CASE reply.kind = "Windows"    -> reply.windows
      [] reply.kind = "Workspaces" -> reply.workspaces
      [] reply.kind = "Outputs"    -> reply.outputs

\* The format!() of the getter of that kind, on one entry.
entry_line(kind, x) ==
    CASE kind = "Windows"    -> window_line(x)
      [] kind = "Workspaces" -> workspace_line(x)
      [] kind = "Outputs"    -> output_line(x)

\* What the operations make of fuzzel's output: the text before the first
\* ':' for an output, that text parsed as u64 for a window or a workspace.
select_id(kind, fuzzel_out) ==
    IF kind = "Outputs"
    THEN [ ok |-> TRUE, val |-> fuzzel_get_selection_id(fuzzel_out) ]
    ELSE parse_u64(fuzzel_get_selection_id(fuzzel_out))

FormatInit ==
    /\ MainAt(Connected) /\ subcommand = "" /\ DispatchOff
    /\ f_pc = "reply"
    /\ f_reply \in FormatReplies
    /\ f_lines = << >>
    /\ f_ids = << >>

\* get_windows / get_workspaces / get_outputs on the reply.
format_get_listing ==
    /\ f_pc = "reply"
    /\ f_lines' = get_listing(RequestOf(f_reply), f_reply).val
    /\ f_pc' = "listed"
    /\ UNCHANGED << subcommand, socket, pc, sent, acks, picker_runs, picked, daemon, locals, spawned,
                    result, dvars, f_reply, f_ids >>

\* Every entry formatted by itself, its line picked in fuzzel (which prints
\* it with a newline) and resolved.
format_select_id ==
    /\ f_pc = "reply"
    /\ f_lines' = [ i \in 1..Len(EntriesOf(f_reply)) |->
                      entry_line(f_reply.kind, EntriesOf(f_reply)[i]) ]
    /\ f_ids' = [ i \in 1..Len(EntriesOf(f_reply)) |->
                    select_id(f_reply.kind,
                              entry_line(f_reply.kind, EntriesOf(f_reply)[i]) \o << "\n" >>) ]
    /\ f_pc' = "resolved"
    /\ UNCHANGED << subcommand, socket, pc, sent, acks, picker_runs, picked, daemon, locals, spawned,
                    result, dvars, f_reply >>

FormatNext == format_get_listing \/ format_select_id

SpecFormat == FormatInit /\ [][FormatNext]_vars

\* ================================================================ claims
\* The Action requests among the requests sent, in order.
IsAction(r) == r.type = "Action"
ActionsSent == SelectSeq(sent, IsAction)

PayloadKinds == { "Windows", "Workspaces", "Outputs" }

\* C1: when the picker printed nothing, the invocation ends successfully and
\* has sent no Action request.
C1_EmptyPickIsNoOp ==
    (pc = "done" /\ picked = Some(<< >>)) =>
        (result.kind = "Ok" /\ ActionsSent = << >>)

\* C2: run_action on an Action request succeeds exactly when the reply is
\* the bare acknowledgement Handled; a Windows, Workspaces or Outputs payload
\* gives an UnhandledError, and an error text of the daemon gives an
\* UnhandledError with that text.
C2_RunActionOnlyHandled ==
    d_pc = "run_action" =>
        /\ d_result.kind = "Ok" <=> d_reply.kind = "Handled"
        /\ d_reply.kind \in PayloadKinds => d_result.kind = "UnhandledError"
        /\ d_reply.kind = "Err" =>
              (d_result.kind = "UnhandledError" /\ d_result.err = d_reply.err)

C2_Witness ==
    /\ d_pc = "run_action"
    /\ d_request = FocusWindow(42)
    /\ d_reply.kind = "Windows" /\ Len(d_reply.windows) = 1
    /\ d_result.kind = "UnhandledError"

\* C3: query on a query request gives None for the bare acknowledgement
\* Handled, Some(payload) with the very payload of the reply for a Windows,
\* Workspaces or Outputs payload, and an UnhandledError with the daemon's
\* text when the daemon reports an error.
C3_QueryResult ==
    d_pc = "query" =>
        /\ d_reply.kind = "Handled" => (d_result.kind = "Ok" /\ d_result.val = None)
        /\ d_reply.kind \in PayloadKinds =>
              (d_result.kind = "Ok" /\ d_result.val = Some(d_reply))
        /\ d_reply.kind = "Err" =>
              (d_result.kind = "UnhandledError" /\ d_result.err = d_reply.err)

C3_Witness ==
    /\ d_pc = "query"
    /\ d_request = RequestWorkspaces
    /\ d_reply.kind = "Workspaces" /\ Len(d_reply.workspaces) = 2
    /\ d_result.kind = "Ok" /\ d_result.val = Some(d_reply)

\* ---- what the picker printed, read without the program's own helpers
PickedOut == picked[1]
HasColon(s) == \E i \in 1..Len(s) : s[i] = ":"
FirstColon(s) == CHOOSE i \in 1..Len(s) : s[i] = ":" /\ \A j \in 1..(i - 1) : s[j] # ":"
\* The text before the first ':', all of it when there is none.
PrefixOf(s) == IF HasColon(s) THEN SubSeq(s, 1, FirstColon(s) - 1) ELSE s
\* A picked line: text that ends with its newline.
IsLine(s) == s # << >> /\ s[Len(s)] = "\n"
LineOf(s) == SubSeq(s, 1, Len(s) - 1)
DecimalDigits == { "0", "1", "2", "3", "4", "5", "6", "7", "8", "9" }
AllDigits(s) == s # << >> /\ \A i \in 1..Len(s) : s[i] \in DecimalDigits
\* The decimal text of a u64: digits that write a number up to u64::MAX.
IsU64(s) == AllDigits(s) /\ ~above_u64_max(trim_zeros(s))
\* No number: empty, with a character that is neither a digit nor '+', or
\* digits that write a number above u64::MAX.
NotNumeric(s) ==
    \/ s = << >>
    \/ \E i \in 1..Len(s) : s[i] \notin DecimalDigits \cup { "+" }
    \/ AllDigits(s) /\ above_u64_max(trim_zeros(s))
DigitOf(c) ==
    CASE c = "0" -> 0 [] c = "1" -> 1 [] c = "2" -> 2 [] c = "3" -> 3 [] c = "4" -> 4
      [] c = "5" -> 5 [] c = "6" -> 6 [] c = "7" -> 7 [] c = "8" -> 8 [] c = "9" -> 9
RECURSIVE DecimalValue(_)
DecimalValue(s) ==
    IF s = << >> THEN 0
    ELSE 10 * DecimalValue(SubSeq(s, 1, Len(s) - 1)) + DigitOf(s[Len(s)])

\* The invocation ended in the panic of a println!() that could not write
\* to stdout.
PrintlnFailed == result.kind = "Panic" /\ result.err[1] \in PrintlnPanics

\* focus-workspace has ended and the picked line is new text: not empty and
\* without ':'.
FreeTextPicked ==
    /\ pc = "done" /\ subcommand = "focus-workspace"
    /\ picked # None /\ IsLine(PickedOut)
    /\ LineOf(PickedOut) # << >> /\ ~HasColon(PickedOut)

\* The workspace that ends the idx-sorted listing: of the workspaces with the
\* highest idx, the one the daemon listed last.
LastTop == daemon.top[Len(daemon.top)]

\* C4 (as claimed): in focus-workspace with a non-empty workspace listing, a
\* picked line that is not empty and has no ':' always leads to exactly two
\* actions, FocusWorkspace of the last workspace of the idx-sorted listing
\* and then SetWorkspaceName of that same workspace to the typed text.
C4_FreeTextAlwaysTwoActions ==
    (FreeTextPicked /\ daemon.kind = "Workspaces" /\ daemon.count > 0) =>
        ActionsSent = << FocusWorkspace(Id(LastTop)),
                         SetWorkspaceName(LineOf(PickedOut), Some(Id(LastTop))) >>

\* C4 (amended): with a non-empty workspace listing, such a line either
\* ends in the panic of the println!() of the selection, with no action, or
\* leads to FocusWorkspace of the last workspace of the idx-sorted listing
\* as the first action; when the daemon acknowledges it, SetWorkspaceName of
\* the same workspace to the typed text follows and these are the only two
\* actions, and when it does not, FocusWorkspace is the only action.
C4_FreeTextFocusThenRename ==
    (FreeTextPicked /\ daemon.kind = "Workspaces" /\ daemon.count > 0) =>
        IF result.kind = "Panic"
        THEN PrintlnFailed /\ sent = << RequestWorkspaces >>
        ELSE /\ Len(sent) >= 2 /\ sent[2] = FocusWorkspace(Id(LastTop))
             /\ acks[2] = "Handled" =>
                   ActionsSent = << FocusWorkspace(Id(LastTop)),
                                    SetWorkspaceName(LineOf(PickedOut), Some(Id(LastTop))) >>
             /\ acks[2] # "Handled" => ActionsSent = << FocusWorkspace(Id(LastTop)) >>

C4_Witness ==
    /\ FreeTextPicked /\ PickedOut = << "s", "\n" >>
    /\ daemon.kind = "Workspaces" /\ daemon.count = 2 /\ daemon.top = << 7 >>
    /\ daemon.focused = << 10 >>
    /\ ActionsSent = << FocusWorkspace(Id(7)), SetWorkspaceName(<< "s" >>, Some(Id(7))) >>
    /\ result.kind = "Ok"

\* C5 (as claimed): in focus-workspace, a picked line with a ':' is an id
\* pick: a prefix of digits n before the first ':' leads to the one action
\* FocusWorkspace{Id(n)}, a prefix that is no number ends the invocation
\* with a failure and without any action, and no SetWorkspaceName is sent.
C5_ColonLineIsIdPick ==
    (/\ pc = "done" /\ subcommand = "focus-workspace"
     /\ picked # None /\ IsLine(PickedOut) /\ HasColon(PickedOut)) =>
        /\ IsU64(PrefixOf(PickedOut)) =>
              ActionsSent = << FocusWorkspace(Id(DecimalValue(PrefixOf(PickedOut)))) >>
        /\ NotNumeric(PrefixOf(PickedOut)) =>
              (ActionsSent = << >> /\ result.kind \notin { "Ok", "Running" })
        /\ \A i \in 1..Len(sent) : sent[i].action # "SetWorkspaceName"

\* C6: in steal-container, when the Workspaces reply reports one focused
\* workspace, W, and the picked line starts with the window id N, the one
\* action sent is MoveWindowToWorkspace{window_id: N, Id(W), focus: false}.
C6_StealMovesPickedWindowToFocused ==
    (/\ pc = "done" /\ subcommand = "steal-container"
     /\ daemon.kind = "Workspaces" /\ Len(daemon.focused) = 1
     /\ picked # None /\ HasColon(PickedOut) /\ IsU64(PrefixOf(PickedOut))) =>
        ActionsSent = << MoveWindowToWorkspace(Some(DecimalValue(PrefixOf(PickedOut))),
                                               Id(daemon.focused[1]), FALSE) >>

C6_Witness ==
    /\ pc = "done" /\ subcommand = "steal-container"
    /\ daemon.kind = "Workspaces" /\ daemon.focused = << 7 >> /\ daemon.count = 2
    /\ picked = Some(<< "4", "2", ":", " ", "U", "n", "k", "n", "o", "w", "n", "\n" >>)
    /\ ActionsSent = << MoveWindowToWorkspace(Some(42), Id(7), FALSE) >>
    /\ result.kind = "Ok"

\* C7: when the daemon lists zero workspaces, steal-container and
\* workspace-exec end in a panic of the current-workspace lookup, before the
\* picker and without an action or a spawned command, and focus-workspace
\* with new text picked ends in a panic without an action, that of the
\* last-workspace lookup whenever the lookup is reached: no default
\* workspace is used.
C7_NoWorkspacesPanics ==
    (pc = "done" /\ daemon.kind = "Workspaces" /\ daemon.count = 0) =>
        /\ subcommand \in { "steal-container", "workspace-exec" } =>
              /\ result = [ kind |-> "Panic", err |-> UnwrapNone ]
              /\ ActionsSent = << >> /\ picker_runs = 0 /\ spawned = None
        /\ FreeTextPicked =>
              /\ result.kind = "Panic"
              /\ ~PrintlnFailed => result.err = << "No workspaces" >>
              /\ ActionsSent = << >>

C7_Witness ==
    /\ pc = "done" /\ subcommand = "steal-container"
    /\ daemon.kind = "Workspaces" /\ daemon.count = 0
    /\ sent = << RequestWindows, RequestWorkspaces >>
    /\ result.kind = "Panic"

\* C8: in focus-workspace, an action the daemon does not acknowledge is the
\* last request of the invocation, which ends with the failure; so a failed
\* SetWorkspaceName is followed by nothing (no undo of the focus), and
\* SetWorkspaceName is only ever sent right after an acknowledged
\* FocusWorkspace.
C8_FocusThenRenameStopsAtFailure ==
    subcommand = "focus-workspace" =>
        \A i \in 1..Len(sent) :
            /\ (IsAction(sent[i]) /\ acks[i] # "Handled") =>
                  (i = Len(sent) /\ pc = "done" /\ result.kind \notin { "Ok", "Running" })
            /\ sent[i].action = "SetWorkspaceName" =>
                  (i > 1 /\ sent[i - 1].action = "FocusWorkspace" /\ acks[i - 1] = "Handled")

C8_Witness ==
    /\ pc = "done" /\ subcommand = "focus-workspace"
    /\ Len(sent) = 3
    /\ sent[2].action = "FocusWorkspace" /\ acks[2] = "Handled"
    /\ sent[3].action = "SetWorkspaceName" /\ acks[3] = "Err"
    /\ result = [ kind |-> "UnhandledError", err |-> << "e" >> ]

\* The reply to the i-th request is a failure of that exchange.
Failed(i) ==
    IF IsAction(sent[i]) THEN acks[i] # "Handled" ELSE acks[i] \in { "Err", "IoError" }

\* C9: a failed stage ends the invocation.  A request whose exchange failed
\* is the last request sent and the invocation has ended with a failure; a
\* failed query leaves the picker unused and no action sent; and an
\* invocation that failed in the picker or while resolving the pick (a parse
\* error or a panic) has sent no action.
C9_FailureAbortsPipeline ==
    /\ \A i \in 1..Len(sent) :
          Failed(i) =>
              /\ i = Len(sent) /\ pc = "done" /\ result.kind \notin { "Ok", "Running" }
              /\ ~IsAction(sent[i]) => (picker_runs = 0 /\ ActionsSent = << >>)
    /\ result.kind \in { "ParseIntError", "Panic" } => (pc = "done" /\ ActionsSent = << >>)
    /\ result.kind # "Running" => pc = "done"

C9_Witness ==
    /\ pc = "done" /\ subcommand = "steal-container"
    /\ sent = << RequestWindows >> /\ acks = << "Err" >>
    /\ picker_runs = 0
    /\ result = [ kind |-> "UnhandledError", err |-> << "e" >> ]

\* C10: in focus-container, steal-container and move-to-workspace, picker
\* output whose text before the first ':' is no number ends the invocation
\* with a parse error and without any action.
C10_BadPrefixIsParseError ==
    (/\ pc = "done"
     /\ subcommand \in { "focus-container", "steal-container", "move-to-workspace" }
     /\ picked # None /\ NotNumeric(PrefixOf(PickedOut))) =>
        (result = [ kind |-> "ParseIntError", err |-> << >> ] /\ ActionsSent = << >>)

C10_Witness ==
    /\ pc = "done" /\ subcommand = "move-to-workspace"
    /\ picked = Some(<< "x", ":", "y", "\n" >>)
    /\ result.kind = "ParseIntError"
    /\ sent = << RequestWorkspaces >>

\* The query requests among the requests sent, in order.
IsQuery(r) == r.type # "Action"
QueriesSent == SelectSeq(sent, IsQuery)

\* The counts of C11 and the order within the requests: queries come before
\* actions; one query, two only in steal-container; one picker run; two
\* actions only in focus-workspace after a line without ':'; and an action
\* only after the picker has printed its output.
C11_Counts ==
    /\ \A i, j \in 1..Len(sent) : (i < j /\ IsAction(sent[i])) => IsAction(sent[j])
    /\ Len(QueriesSent) <= 2
    /\ Len(QueriesSent) = 2 => subcommand = "steal-container"
    /\ picker_runs <= 1
    /\ Len(ActionsSent) <= 2
    /\ Len(ActionsSent) = 2 =>
          (subcommand = "focus-workspace" /\ picked # None /\ ~HasColon(PickedOut))
    /\ ActionsSent # << >> => (picker_runs = 1 /\ picked # None)

\* The order of C11 across the picker: the step that runs the picker sends
\* nothing, no query is sent once the picker has been run, and an action is
\* sent only when the picker has run and has printed its output.
C11_Step ==
    /\ picker_runs' # picker_runs => sent' = sent
    /\ picker_runs > 0 => QueriesSent' = QueriesSent
    /\ ActionsSent' # ActionsSent => (picker_runs = 1 /\ picked # None)

\* C11: every invocation does its exchanges in the order queries, picker,
\* actions: at most one query (two only for steal-container), at most one
\* picker run, at most two actions (two only for focus-workspace with new
\* text); no query after the picker was run, no action before it returned.
C11_QueriesPickerActions == []C11_Counts /\ [][C11_Step]_vars

C11_Witness ==
    /\ pc = "done" /\ subcommand = "steal-container"
    /\ Len(QueriesSent) = 2 /\ picker_runs = 1 /\ Len(ActionsSent) = 1
    /\ Len(sent) = 3 /\ result.kind = "Ok"

\* C12: a window, workspace or output formatted into its line, and that
\* line picked and resolved, gives back its identifier: the numeric id of a
\* window or a workspace, the name of an output, whatever the title, name,
\* make, model or serial hold.
C12_RoundTrip ==
    f_pc = "resolved" =>
        /\ Len(f_ids) = Len(EntriesOf(f_reply))
        /\ \A i \in 1..Len(f_ids) :
              /\ f_ids[i].ok
              /\ IF f_reply.kind = "Outputs"
                 THEN f_ids[i].val = EntriesOf(f_reply)[i].name
                 ELSE f_ids[i].val = EntriesOf(f_reply)[i].id

C12_Witness ==
    /\ f_pc = "resolved" /\ f_reply.kind = "Windows" /\ Len(f_ids) = 2
    /\ f_reply.windows[1].id = 42 /\ f_reply.windows[1].title = Some(<< "a", ":", "b" >>)
    /\ f_reply.windows[2].title = Some(<< ":" >>)
    /\ f_ids[1] = [ ok |-> TRUE, val |-> 42 ]

\* The orders in which n entries can be listed.
Orders(n) == { p \in [1..n -> 1..n] : \A i, j \in 1..n : i # j => p[i] # p[j] }

\* C13: the workspace listing has exactly one line per workspace returned,
\* ascending by idx whatever order the daemon returned them in; the window
\* listing has the windows' lines in the daemon's order.
C13_ListingOrder ==
    f_pc = "listed" =>
        /\ Len(f_lines) = Len(EntriesOf(f_reply))
        /\ f_reply.kind = "Workspaces" =>
              \E p \in Orders(Len(f_lines)) :
                  /\ \A i \in 1..Len(f_lines) :
                        f_lines[i] = workspace_line(f_reply.workspaces[p[i]])
                  /\ \A i, j \in 1..Len(f_lines) :
                        i < j => f_reply.workspaces[p[i]].idx <= f_reply.workspaces[p[j]].idx
        /\ f_reply.kind = "Windows" =>
              \A i \in 1..Len(f_lines) : f_lines[i] = window_line(f_reply.windows[i])

C13_Witness ==
    /\ f_pc = "listed" /\ f_reply.kind = "Workspaces" /\ Len(f_reply.workspaces) = 3
    /\ f_reply.workspaces[1].idx = 2
    /\ f_reply.workspaces[2].idx = 0
    /\ f_reply.workspaces[3].idx = 1
    /\ f_lines = << workspace_line(f_reply.workspaces[2]),
                    workspace_line(f_reply.workspaces[3]),
                    workspace_line(f_reply.workspaces[1]) >>

\* C14: steal-container takes for the current workspace the first workspace
\* the daemon lists as focused, in the daemon's order and not by idx, also
\* when several are focused; when the listing is not empty and none is
\* focused, the lookup panics before the picker and before any action.
C14_FirstFocusedInDaemonOrder ==
    (subcommand = "steal-container" /\ Len(sent) >= 2 /\ daemon.kind = "Workspaces") =>
        /\ daemon.focused # << >> =>
              /\ \A i \in 1..Len(ActionsSent) :
                    ActionsSent[i].reference = Id(daemon.focused[1])
              /\ (/\ pc = "done" /\ picked # None
                  /\ HasColon(PickedOut) /\ IsU64(PrefixOf(PickedOut))) =>
                    ActionsSent =
                        << MoveWindowToWorkspace(Some(DecimalValue(PrefixOf(PickedOut))),
                                                 Id(daemon.focused[1]), FALSE) >>
        /\ (daemon.count > 0 /\ daemon.focused = << >>) =>
              /\ pc = "done"
              /\ result = [ kind |-> "Panic", err |-> UnwrapNone ]
              /\ picker_runs = 0 /\ picked = None /\ ActionsSent = << >>

C14_Witness ==
    /\ pc = "done" /\ subcommand = "steal-container"
    /\ daemon.kind = "Workspaces" /\ daemon.focused = << 10, 7 >> /\ daemon.top = << 10 >>
    /\ ActionsSent = << MoveWindowToWorkspace(Some(42), Id(10), FALSE) >>

\* C15: workspace-exec sends exactly one request, the Workspaces query, and
\* never runs the picker or sends an action, on every path it takes.
C15_WorkspaceExecOneQuery ==
    (subcommand = "workspace-exec" /\ socket # None) =>
        /\ picker_runs = 0 /\ picked = None
        /\ ActionsSent = << >>
        /\ pc = "get_current_workspace_name" => sent = << >>
        /\ pc \in { "exec", "done" } => sent = << RequestWorkspaces >>

C15_Witness ==
    /\ subcommand = "workspace-exec" /\ pc = "done"
    /\ spawned # None /\ result.kind = "Ok"
    /\ sent = << RequestWorkspaces >> /\ acks = << "Workspaces" >>

\* The i-th request was answered with Handled or with a payload of another
\* kind than the one asked for.
OtherAnswer(i) ==
    \/ acks[i] = "Handled"
    \/ acks[i] \in PayloadKinds /\ acks[i] # sent[i].type

\* C16: when steal-container's Workspaces query is answered with Handled or
\* with another payload, the lookup gives workspace 0, the picker runs and
\* the action is MoveWindowToWorkspace with Id(0); a listing query answered
\* that way gives an empty listing and the operation goes on, no error.
C16_OtherAnswerIsDefault ==
    /\ (subcommand = "steal-container" /\ Len(sent) >= 2 /\ OtherAnswer(2)) =>
          /\ pc \in { "fuzzel", "run_action" } => ws = 0
          /\ pc = "done" => picker_runs = 1
          /\ \A i \in 1..Len(ActionsSent) : ActionsSent[i].reference = Id(0)
          /\ (/\ pc = "done" /\ picked # None
              /\ HasColon(PickedOut) /\ IsU64(PrefixOf(PickedOut))) =>
                ActionsSent =
                    << MoveWindowToWorkspace(Some(DecimalValue(PrefixOf(PickedOut))),
                                             Id(0), FALSE) >>
    /\ (/\ subcommand \in { "focus-container", "steal-container", "focus-workspace",
                            "move-to-workspace", "move-workspace-to-output" }
        /\ Len(sent) >= 1 /\ OtherAnswer(1)) =>
          /\ lines = << >>
          /\ pc = "done" => (Len(sent) >= 2 \/ picker_runs = 1)

C16_Witness ==
    /\ pc = "done" /\ subcommand = "steal-container"
    /\ acks = << "Windows", "Handled", "Handled" >>
    /\ picked = Some(<< "7", ":", "x" >>)
    /\ ActionsSent = << MoveWindowToWorkspace(Some(7), Id(0), FALSE) >>
    /\ result.kind = "Ok"

\* C17: in move-workspace-to-output, whatever the picker prints once the
\* Outputs query has succeeded, exactly one action is sent,
\* MoveWorkspaceToMonitor with the text before the first ':' as output and
\* no workspace reference, whether or not that text names a listed output.
C17_OutputNeverFailsToResolve ==
    (subcommand = "move-workspace-to-output" /\ picked # None) =>
        /\ pc \in { "run_action", "done" }
        /\ pc = "run_action" => (output = PrefixOf(PickedOut) /\ ActionsSent = << >>)
        /\ pc = "done" =>
              /\ Len(sent) = 2
              /\ ActionsSent = << MoveWorkspaceToMonitor(PrefixOf(PickedOut), None) >>

C17_Witness ==
    /\ pc = "done" /\ subcommand = "move-workspace-to-output"
    /\ daemon.kind = "Outputs" /\ daemon.count = 2
    /\ picked = Some(<< "7", ":", "x" >>)
    /\ ActionsSent = << MoveWorkspaceToMonitor(<< "7" >>, None) >>

====
